---- MODULE Spec2Model ----
(***************************************************************************)
(* A model of the CronMonitor Python client (src/python/cronmonitor.py)    *)
(* and of the stand-alone example script (src/python/simple.py).           *)
(*                                                                         *)
(* One behaviour is a sequence of top-level uses of one CronMonitor        *)
(* instance (a direct ping(), a call of a wrapper made by wrap(), a        *)
(* `with monitor:` block), of the module-level ping() and cronmonitor(),   *)
(* or runs of simple.py's main().  The environment                         *)
(* chooses the configuration given to the constructor, the outcome of the  *)
(* job logic and the outcome of every urlopen() call.                      *)
(*                                                                         *)
(* Python values are written as strings ("None", "True", "False", the job  *)
(* values and error names); durations of time.sleep are in tenths of a     *)
(* second, so that 0.5 * attempt is the integer 5 * attempt.               *)
(***************************************************************************)
EXTENDS Integers, Sequences, FiniteSets, TLC

VARIABLES
    monitor,      \* the CronMonitor instance: its attributes set by __init__
    self,         \* the instance the running method is bound to
    args,         \* the <<token, timeout>> given to the module-level ping(), else <<>>
    deco,         \* <<>>, or <<m, token, timeout>>: the instance m that
                  \* cronmonitor(token, timeout) made and whose wrap it returned
    has_wrapper,  \* whether monitor.wrap(func) has produced a wrapper
    usage,        \* the calling convention of the current top-level call
    pc,           \* where control is
    attempt,      \* ping(): the loop variable `attempt` (0 outside the loop)
    result,       \* wrapper(): the local `result`
    job_out,      \* what the job logic did in this call: <<>>, <<"return", v>>, <<"raise", e>>
    trace,        \* the requests issued and sleeps started in this call, in order
    pings,        \* the number of ping() / ping_cronmonitor() invocations in this call
    ping_ret,     \* what ping() / ping_cronmonitor() returned in this call
    ret,          \* what the top-level call returned to its caller
    exc,          \* the error the top-level call propagated to its caller
    exit_status,  \* simple.py: <<>> or <<the value main() returned>>
    log,          \* the lines printed in this call
    calls         \* the number of top-level calls started

vars == <<monitor, self, args, deco, has_wrapper, usage, pc, attempt, result, job_out, trace,
          pings, ping_ret, ret, exc, exit_status, log, calls>>

----------------------------------------------------------------------------
(* Bounds of the model *)

\* the largest `retries` argument tried
MaxRetries == 4
\* the number of top-level calls in one behaviour
MaxCalls == 2

----------------------------------------------------------------------------
(* Program constants *)

BASE_URL == "https://cronmonitor.app"
DefaultTimeout == 10
DefaultRetries == 3
DefaultVerbose == FALSE
\* sleep_time = 0.5 * attempt seconds, in tenths of a second
BackoffTenths == 5
SuccessStatus == 200
PING_URL == "https://cronmonitor.app/ping/YOUR_TOKEN"
TIMEOUT == 10

----------------------------------------------------------------------------
(* Inputs *)

\* token arguments; __init__ accepts any string, the empty one included
Tokens == {"", "tokA", "tokB"}
Timeouts == {5, DefaultTimeout}
\* retries arguments; __init__ accepts any integer, 0 included
RetriesArgs == (0 .. MaxRetries) \cup {DefaultRetries}
\* the (token, timeout) arguments tried for the module-level ping() and
\* cronmonitor(): timeout given, and timeout left to its default
ModuleArgs == {<<"tokA", 5>>, <<"tokB", DefaultTimeout>>}
\* what the job logic may return, and the errors it may raise
Values == {"v1", "v2"}
Errors == {"e1", "e2"}
\* the status codes the endpoint may answer with
Statuses == {200, 204, 500}
\* exceptions of urlopen other than HTTPError
TransportErrors == {"URLError", "timeout", "Exception"}

----------------------------------------------------------------------------
(* The exception classes the except clauses test *)

\* isinstance(e, urllib.error.URLError): HTTPError is a subclass of URLError
IsURLError(k) == k \in {"URLError", "HTTPError"}

\* isinstance(e, Exception): every transport error and every error of the job
\* logic is one; KeyboardInterrupt derives from BaseException only
IsException(k) == k \in {"URLError", "HTTPError", "timeout", "Exception"} \cup Errors

----------------------------------------------------------------------------
(* urllib.request.urlopen as the code uses it *)

Respond(s) == [status |-> s, exc |-> "None"]
Raise(k, s) == [status |-> s, exc |-> k]

\* a 2xx answer is returned as a response, any other status is raised as
\* HTTPError; a transport failure is raised with no status (0)
UrlopenOutcomes ==
    {Respond(s) : s \in {t \in Statuses : t \div 100 = 2}}
        \cup {Raise("HTTPError", s) : s \in {t \in Statuses : t \div 100 # 2}}
        \cup {Raise(k, 0) : k \in TransportErrors}

RequestEvent(url, timeout, o) ==
    [ev |-> "request", url |-> url, timeout |-> timeout,
     status |-> o.status, exc |-> o.exc, secs |-> 0]

SleepEvent(d) ==
    [ev |-> "sleep", url |-> "", timeout |-> 0, status |-> 0, exc |-> "None", secs |-> d]

----------------------------------------------------------------------------
(* class CronMonitor *)

CronMonitorInit(token, timeout, retries, verbose) ==
    [token |-> token, timeout |-> timeout, retries |-> retries, verbose |-> verbose,
     ping_url |-> BASE_URL \o "/ping/" \o token]

\* _log: the line is printed only when verbose
Log(s, lg, msg, n) == IF s.verbose THEN Append(lg, [msg |-> msg, n |-> n]) ELSE lg

\* variant: any 2xx status counts as success
IsSuccessAny2xx(o) == o.exc = "None" /\ o.status \div 100 = 2

\* `if response.status == 200`
IsSuccess(o) == o.exc = "None" /\ o.status = SuccessStatus

\* variant: only the `except urllib.error.URLError` clause
PingCatchesURLErrorOnly(k) == IsURLError(k)

\* the except clauses of ping(): URLError, then Exception
PingCatches(k) == IsURLError(k) \/ IsException(k)

\* variant: the wait sits inside the verbose branch with its log line
SleepsAfterVerboseOnly(s, a) == a < s.retries /\ s.verbose

\* `if attempt < self.retries`: a sleep follows this attempt
SleepsAfter(s, a) == a < s.retries

\* variant: exponential backoff, 0.5 * 2 ** (attempt - 1)
SleepTimeExponential(a) == BackoffTenths * 2 ^ (a - 1)

\* sleep_time = 0.5 * attempt
SleepTime(a) == BackoffTenths * a

\* variant: wrapper() returns what ping() returned
PingReturnSurfaced(s, u, res, b, lg) ==
    /\ ping_ret' = b
    /\ pc' = "idle"
    /\ attempt' = 0
    /\ log' = lg
    /\ exc' = "None"
    /\ ret' = CASE u \in {"ping", "module_ping", "wrap", "decorator"} -> b
                [] OTHER -> "None"

\* `return b` in ping(), followed by what the caller `u` of ping() does with it:
\* a direct call and the module-level ping() hand b on, wrapper() returns its
\* local result, __exit__ returns False after a block that raised nothing
PingReturn(s, u, res, b, lg) ==
    /\ ping_ret' = b
    /\ pc' = "idle"
    /\ attempt' = 0
    /\ log' = lg
    /\ exc' = "None"
    /\ ret' = CASE u \in {"ping", "module_ping"} -> b
                [] u \in {"wrap", "decorator"} -> res
                [] OTHER -> "None"

\* an exception that leaves ping(): neither wrapper() nor __exit__ catches it
PingPropagate(k, lg) ==
    /\ ping_ret' = "None"
    /\ pc' = "idle"
    /\ attempt' = 0
    /\ log' = lg
    /\ exc' = k
    /\ ret' = "None"

\* variant: range(1, self.retries + 2), `retries` read as retries after the first attempt
PingLoopOffByOne(s, u, res, a, lg) ==
    IF a <= s.retries + 1
    THEN /\ pc' = "urlopen"
         /\ attempt' = a
         /\ log' = lg
         /\ ping_ret' = "None"
         /\ ret' = "None"
         /\ exc' = "None"
    ELSE PingReturn(s, u, res, "False", Log(s, lg, "All ping attempts failed", 0))

\* the head of `for attempt in range(1, self.retries + 1)` with next index a,
\* and the two statements after the loop
PingLoop(s, u, res, a, lg) ==
    IF a <= s.retries
    THEN /\ pc' = "urlopen"
         /\ attempt' = a
         /\ log' = lg
         /\ ping_ret' = "None"
         /\ ret' = "None"
         /\ exc' = "None"
    ELSE PingReturn(s, u, res, "False", Log(s, lg, "All ping attempts failed", 0))

\* the state of a top-level call as it starts, bound to instance s
StartCallOn(u, s, a) ==
    /\ calls < MaxCalls
    /\ pc = "idle"
    /\ calls' = calls + 1
    /\ usage' = u
    /\ self' = s
    /\ args' = a
    /\ trace' = <<>>
    /\ job_out' = <<>>
    /\ exit_status' = <<>>

\* a top-level call on the retained instance
StartCall(u) == StartCallOn(u, monitor, <<>>)

\* monitor.ping() called directly
Ping ==
    /\ StartCall("ping")
    /\ pings' = 1
    /\ result' = "None"
    /\ PingLoop(monitor, "ping", "None", 1, <<>>)
    /\ UNCHANGED <<monitor, deco, has_wrapper>>

\* one pass of the loop body of ping(): the request with outcome o, the test of
\* the status, the except clauses, and the start of the sleep before a retry
PingRequest(o) ==
    /\ pc = "urlopen"
    /\ LET lg1 == Log(self, log, "Ping attempt", attempt)
           req == RequestEvent(self.ping_url, self.timeout, o)
       IN  IF IsSuccess(o)
           THEN /\ trace' = Append(trace, req)
                /\ PingReturn(self, usage, result, "True",
                              Log(self, lg1, "Ping sent successfully", 0))
           ELSE IF o.exc # "None" /\ ~PingCatches(o.exc)
           THEN /\ trace' = Append(trace, req)
                /\ PingPropagate(o.exc, lg1)
           ELSE LET lg2 == IF o.exc # "None"
                           THEN Log(self, lg1, "Attempt failed", attempt)
                           ELSE lg1
                IN  IF SleepsAfter(self, attempt)
                    THEN /\ trace' = Append(Append(trace, req), SleepEvent(SleepTime(attempt)))
                         /\ pc' = "sleep"
                         /\ log' = Log(self, lg2, "Waiting before retry", SleepTime(attempt))
                         /\ UNCHANGED <<attempt, ping_ret, ret, exc>>
                    ELSE /\ trace' = Append(trace, req)
                         /\ PingLoop(self, usage, result, attempt + 1, lg2)
    /\ UNCHANGED <<monitor, self, args, deco, has_wrapper, usage, result, job_out, pings,
                   exit_status, calls>>

\* variant: the loop uses self.retries as its countdown, decrementing it per retry
SleepEndCountdown ==
    /\ pc = "sleep"
    /\ monitor' = [monitor EXCEPT !.retries = @ - 1]
    /\ self' = [self EXCEPT !.retries = @ - 1]
    /\ PingLoop(self, usage, result, attempt + 1, log)
    /\ UNCHANGED <<args, deco, has_wrapper, usage, result, job_out, trace, pings,
                   exit_status, calls>>

\* variant: after the sleep the same attempt index is tried again
SleepEndSameAttempt ==
    /\ pc = "sleep"
    /\ PingLoop(self, usage, result, attempt, log)
    /\ UNCHANGED <<monitor, self, args, deco, has_wrapper, usage, result, job_out, trace,
                   pings, exit_status, calls>>

\* time.sleep(sleep_time) returns and the loop goes on to the next attempt
SleepEnd ==
    /\ pc = "sleep"
    /\ PingLoop(self, usage, result, attempt + 1, log)
    /\ UNCHANGED <<monitor, self, args, deco, has_wrapper, usage, result, job_out, trace, pings,
                   exit_status, calls>>

\* monitor.wrap(func): builds and returns the wrapper, and does nothing else
Wrap ==
    /\ pc = "idle"
    /\ has_wrapper' = TRUE
    /\ UNCHANGED <<monitor, self, args, deco, usage, pc, attempt, result, job_out, trace, pings,
                   ping_ret, ret, exc, exit_status, log, calls>>

\* wrapper(*args, **kwargs) is called: up to the call of func
WrapperCall ==
    /\ has_wrapper
    /\ StartCall("wrap")
    /\ pc' = "func"
    /\ log' = Log(monitor, <<>>, "Starting wrapped function", 0)
    /\ pings' = 0
    /\ attempt' = 0
    /\ result' = "None"
    /\ ping_ret' = "None"
    /\ ret' = "None"
    /\ exc' = "None"
    /\ UNCHANGED <<monitor, deco, has_wrapper>>

\* func returns v: result = v, then self.ping(), then `return result`
FuncReturns(v) ==
    /\ pc = "func"
    /\ result' = v
    /\ job_out' = <<"return", v>>
    /\ pings' = pings + 1
    /\ PingLoop(self, usage, v, 1,
                Log(self, log, "Function completed, sending ping...", 0))
    /\ UNCHANGED <<monitor, self, args, deco, has_wrapper, usage, trace, exit_status, calls>>

\* variant: self.ping() in a finally clause, run also when func raises
FuncRaisesThenPings(e) ==
    /\ pc = "func"
    /\ job_out' = <<"raise", e>>
    /\ pings' = pings + 1
    /\ PingLoop(self, usage, "None", 1, log)
    /\ UNCHANGED <<monitor, self, args, deco, has_wrapper, usage, result, trace, exit_status, calls>>

\* func raises e: wrapper() has no handler, e leaves it at the call of func
FuncRaises(e) ==
    /\ pc = "func"
    /\ job_out' = <<"raise", e>>
    /\ exc' = e
    /\ pc' = "idle"
    /\ UNCHANGED <<monitor, self, args, deco, has_wrapper, usage, attempt, result, trace, pings,
                   ping_ret, ret, exit_status, log, calls>>

\* variant: __enter__ sends the ping
EnterPings ==
    /\ StartCall("with")
    /\ pings' = 1
    /\ result' = "None"
    /\ PingLoop(monitor, "with", "None", 1,
                Log(monitor, <<>>, "Entering CronMonitor context", 0))
    /\ UNCHANGED <<monitor, deco, has_wrapper>>

\* __enter__: logs and returns self; the block of the with statement starts
Enter ==
    /\ StartCall("with")
    /\ pc' = "body"
    /\ log' = Log(monitor, <<>>, "Entering CronMonitor context", 0)
    /\ pings' = 0
    /\ attempt' = 0
    /\ result' = "None"
    /\ ping_ret' = "None"
    /\ ret' = "None"
    /\ exc' = "None"
    /\ UNCHANGED <<monitor, deco, has_wrapper>>

\* variant: __exit__ returns True
ExitReturnTrue == TRUE

\* what __exit__ returns: False, "don't suppress exceptions"
ExitReturn == FALSE

\* the block ends and __exit__(exc_type, ...) runs; exc_type is "None" when the
\* block raised nothing.  The with statement re-raises the error of the block
\* unless __exit__ returned a true value.
Exit(exc_type) ==
    /\ pc = "body"
    /\ IF exc_type = "None"
       THEN /\ job_out' = <<"return", "None">>
            /\ pings' = pings + 1
            /\ PingLoop(self, usage, "None", 1,
                        Log(self, log, "Context completed successfully, sending ping...", 0))
       ELSE /\ job_out' = <<"raise", exc_type>>
            /\ log' = Log(self, log, "Context exited with exception", 0)
            /\ exc' = IF ExitReturn THEN "None" ELSE exc_type
            /\ pc' = "idle"
            /\ UNCHANGED <<pings, attempt, ping_ret, ret>>
    /\ UNCHANGED <<monitor, self, args, deco, has_wrapper, usage, result, trace, exit_status, calls>>

----------------------------------------------------------------------------
(* The convenience functions of cronmonitor.py *)

\* variant: the convenience functions keep the caller's timeout out of the instance
FreshMonitorDefaultTimeout(token, timeout) ==
    CronMonitorInit(token, DefaultTimeout, DefaultRetries, DefaultVerbose)

\* CronMonitor(token, timeout=timeout): retries and verbose take their defaults
FreshMonitor(token, timeout) ==
    CronMonitorInit(token, timeout, DefaultRetries, DefaultVerbose)

\* ping(token, timeout): return CronMonitor(token, timeout=timeout).ping()
ModulePing(token, timeout) ==
    /\ StartCallOn("module_ping", FreshMonitor(token, timeout), <<token, timeout>>)
    /\ pings' = 1
    /\ result' = "None"
    /\ PingLoop(FreshMonitor(token, timeout), "module_ping", "None", 1, <<>>)
    /\ UNCHANGED <<monitor, deco, has_wrapper>>

\* cronmonitor(token, timeout): makes an instance and returns its wrap; the
\* decorator is then applied to the job function
Cronmonitor(token, timeout) ==
    /\ pc = "idle"
    /\ deco = <<>>
    /\ deco' = <<FreshMonitor(token, timeout), token, timeout>>
    /\ UNCHANGED <<monitor, self, args, has_wrapper, usage, pc, attempt, result, job_out,
                   trace, pings, ping_ret, ret, exc, exit_status, log, calls>>

\* the function decorated by cronmonitor(...) is called: wrapper() of the
\* instance held by the decorator, up to the call of func
DecoratedCall ==
    /\ deco # <<>>
    /\ StartCallOn("decorator", deco[1], <<>>)
    /\ pc' = "func"
    /\ log' = Log(deco[1], <<>>, "Starting wrapped function", 0)
    /\ pings' = 0
    /\ attempt' = 0
    /\ result' = "None"
    /\ ping_ret' = "None"
    /\ ret' = "None"
    /\ exc' = "None"
    /\ UNCHANGED <<monitor, deco, has_wrapper>>

----------------------------------------------------------------------------
(* simple.py *)

\* log(): always printed
SimpleLog(lg, msg) == Append(lg, [msg |-> msg, n |-> 0])

\* what run_job() may do: return, raise an Exception, or be interrupted
JobErrors == Errors \cup {"KeyboardInterrupt"}

\* what urlopen may do in ping_cronmonitor(): as above, or be interrupted
SimpleOutcomes == UrlopenOutcomes \cup {Raise("KeyboardInterrupt", 0)}

\* the except clauses of ping_cronmonitor(): URLError, then Exception
SimpleCatches(k) == IsURLError(k) \/ IsException(k)

\* the except clauses of main(): KeyboardInterrupt, then Exception; both return 1
MainCatches(k) == k = "KeyboardInterrupt" \/ IsException(k)

\* an exception k reaches the try statement of main()
MainExcept(k, lg) ==
    /\ pc' = "idle"
    /\ IF MainCatches(k)
       THEN /\ exit_status' = <<1>>
            /\ exc' = "None"
            /\ log' = SimpleLog(lg, IF k = "KeyboardInterrupt"
                                    THEN "Job interrupted by user"
                                    ELSE "ERROR: Job failed")
       ELSE /\ exit_status' = <<>>
            /\ exc' = k
            /\ log' = lg

\* main() is entered and calls run_job()
Main ==
    /\ StartCall("simple")
    /\ pc' = "run_job"
    /\ log' = SimpleLog(<<>>, "Starting job...")
    /\ pings' = 0
    /\ attempt' = 0
    /\ result' = "None"
    /\ ping_ret' = "None"
    /\ ret' = "None"
    /\ exc' = "None"
    /\ UNCHANGED <<monitor, deco, has_wrapper>>

\* run_job() returns: main() goes on to ping_cronmonitor()
RunJobReturns ==
    /\ pc = "run_job"
    /\ job_out' = <<"return", "None">>
    /\ pc' = "ping_cronmonitor"
    /\ log' = SimpleLog(log, "Job completed successfully!")
    /\ UNCHANGED <<monitor, self, args, deco, has_wrapper, usage, attempt, result, trace, pings,
                   ping_ret, ret, exc, exit_status, calls>>

\* variant: ping_cronmonitor() in a finally clause, run also when run_job() raises
RunJobRaisesThenPings(k) ==
    /\ pc = "run_job"
    /\ job_out' = <<"raise", k>>
    /\ pc' = "ping_cronmonitor"
    /\ UNCHANGED <<monitor, self, args, deco, has_wrapper, usage, attempt, result, trace, pings,
                   ping_ret, ret, exc, exit_status, log, calls>>

\* run_job() raises k, which the try statement of main() handles
RunJobRaises(k) ==
    /\ pc = "run_job"
    /\ job_out' = <<"raise", k>>
    /\ MainExcept(k, log)
    /\ UNCHANGED <<monitor, self, args, deco, has_wrapper, usage, attempt, result, trace, pings,
                   ping_ret, ret, calls>>

\* ping_cronmonitor() with outcome o of its urlopen call, and the rest of main()
PingCronmonitor(o) ==
    /\ pc = "ping_cronmonitor"
    /\ pings' = pings + 1
    /\ trace' = Append(trace, RequestEvent(PING_URL, TIMEOUT, o))
    /\ LET lg1 == SimpleLog(log, "Sending ping to CronMonitor...")
       IN  IF o.exc = "None"
           THEN /\ ping_ret' = "True"
                /\ log' = SimpleLog(lg1, "Ping sent successfully!")
                /\ exit_status' = <<0>>
                /\ pc' = "idle"
                /\ UNCHANGED exc
           ELSE IF SimpleCatches(o.exc)
           THEN /\ ping_ret' = "False"
                /\ log' = SimpleLog(lg1, "Warning: Failed to ping CronMonitor")
                /\ exit_status' = <<0>>
                /\ pc' = "idle"
                /\ UNCHANGED exc
           ELSE /\ ping_ret' = "None"
                /\ MainExcept(o.exc, lg1)
    /\ UNCHANGED <<monitor, self, args, deco, has_wrapper, usage, attempt, result, job_out, ret, calls>>

----------------------------------------------------------------------------
Init ==
    /\ monitor \in {CronMonitorInit(t, to, r, v) :
                        t \in Tokens, to \in Timeouts, r \in RetriesArgs,
                        v \in {DefaultVerbose, TRUE}}
    /\ self = monitor
    /\ args = <<>>
    /\ deco = <<>>
    /\ has_wrapper = FALSE
    /\ usage = "none"
    /\ pc = "idle"
    /\ attempt = 0
    /\ result = "None"
    /\ job_out = <<>>
    /\ trace = <<>>
    /\ pings = 0
    /\ ping_ret = "None"
    /\ ret = "None"
    /\ exc = "None"
    /\ exit_status = <<>>
    /\ log = <<>>
    /\ calls = 0

Next ==
    \/ Ping
    \/ \E o \in UrlopenOutcomes : PingRequest(o)
    \/ SleepEnd
    \/ Wrap
    \/ WrapperCall
    \/ \E v \in Values : FuncReturns(v)
    \/ \E e \in Errors : FuncRaises(e)
    \/ Enter
    \/ \E t \in {"None"} \cup Errors : Exit(t)
    \/ Main
    \/ RunJobReturns
    \/ \E k \in JobErrors : RunJobRaises(k)
    \/ \E o \in SimpleOutcomes : PingCronmonitor(o)

Spec == Init /\ [][Next]_vars

\* Every request returns or fails within its timeout and every sleep ends, so a
\* ping() that waits for either goes on: the blocking calls of the one thread
\* of an instance with one token and one timeout, which the loop only hands on
InitFair ==
    /\ Init
    /\ monitor.token = "tokA"
    /\ monitor.timeout = DefaultTimeout

FairSpec ==
    /\ InitFair
    /\ [][Next]_vars
    /\ WF_vars(\E o \in UrlopenOutcomes : PingRequest(o))
    /\ WF_vars(SleepEnd)

\* The uses above together with the convenience functions ping() and cronmonitor(),
\* beside a retained instance whose configuration differs from every default
InitModule ==
    /\ Init
    /\ monitor.token = ""
    /\ monitor.timeout # DefaultTimeout
    /\ monitor.retries \in {1, MaxRetries}
    /\ monitor.verbose # DefaultVerbose

NextModule ==
    \/ Next
    \/ \E a \in ModuleArgs : ModulePing(a[1], a[2])
    \/ \E a \in ModuleArgs : Cronmonitor(a[1], a[2])
    \/ DecoratedCall

SpecModule == InitModule /\ [][NextModule]_vars

----------------------------------------------------------------------------
(* Readings of the state used by the properties *)

Requests(tr) == SelectSeq(tr, LAMBDA e : e.ev = "request")
Sleeps(tr) == SelectSeq(tr, LAMBDA e : e.ev = "sleep")
Is200(e) == e.ev = "request" /\ e.exc = "None" /\ e.status = 200
Has200(tr) == \E i \in 1 .. Len(tr) : Is200(tr[i])
\* the calling conventions that run CronMonitor.ping()
MonitorUsages == {"ping", "wrap", "with", "module_ping", "decorator"}
JobReturned == Len(job_out) = 2 /\ job_out[1] = "return"
JobRaised == Len(job_out) = 2 /\ job_out[1] = "raise"

----------------------------------------------------------------------------
(* Properties *)

C2_SuccessStops ==
    usage \in MonitorUsages
    => \A k \in 1 .. Len(Requests(trace)) :
           Is200(Requests(trace)[k])
           => /\ k = Len(Requests(trace))
              /\ k <= self.retries
              /\ Len(Sleeps(trace)) = k - 1
              /\ trace[Len(trace)] = Requests(trace)[k]
              /\ ping_ret = "True"
              /\ pc = "idle"

C2_Witness ==
    /\ usage = "ping"
    /\ ping_ret = "True"
    /\ self.retries = 3
    /\ Len(Requests(trace)) = 3
    /\ Len(Sleeps(trace)) = 2
    /\ Is200(trace[5])

\* C3: a call of ping() ends by returning a boolean, whatever the outcomes of
\* its attempts and whatever verbose is: nothing is raised to the caller.
C3_PingNeverRaises ==
    (usage \in MonitorUsages /\ pc = "idle" /\ pings >= 1)
    => /\ ping_ret \in {"True", "False"}
       /\ exc = "None"
       /\ usage = "ping" => ret = ping_ret

C3_Witness ==
    /\ usage = "ping"
    /\ pc = "idle"
    /\ self.verbose
    /\ ping_ret = "False"
    /\ Len(Requests(trace)) = 3
    /\ Requests(trace)[1].exc = "timeout"
    /\ Requests(trace)[2].exc = "Exception"
    /\ Requests(trace)[3].exc = "URLError"

\* C4: if the wrapped function raises, the wrapper issues no request, ping() is
\* not invoked, and the same error reaches the wrapper's caller.
C4_WrapJobRaises ==
    (usage = "wrap" /\ JobRaised)
    => /\ pc = "idle"
       /\ trace = <<>>
       /\ pings = 0
       /\ ping_ret = "None"
       /\ exc = job_out[2]

C4_Witness ==
    usage = "wrap" /\ pc = "idle" /\ job_out = <<"raise", "e2">> /\ exc = "e2"

\* C5: if the wrapped function returns v, the wrapper invokes ping() exactly
\* once and returns v, whether ping() returned True or False.
C5_WrapReturnsJobValue ==
    (usage = "wrap" /\ JobReturned)
    => /\ pings = 1
       /\ pc = "idle" => /\ ret = job_out[2]
                         /\ exc = "None"
                         /\ ping_ret \in {"True", "False"}

C5_Witness ==
    /\ usage = "wrap"
    /\ pc = "idle"
    /\ job_out = <<"return", "v2">>
    /\ ping_ret = "False"
    /\ ret = "v2"
    /\ Len(Requests(trace)) = 2

\* C6: when the block of `with monitor:` raises, __exit__ issues no request
\* and the same error propagates past the with statement.
C6_ScopeErrorPropagates ==
    (usage = "with" /\ JobRaised)
    => /\ pc = "idle"
       /\ trace = <<>>
       /\ pings = 0
       /\ exc = job_out[2]

C6_Witness ==
    usage = "with" /\ pc = "idle" /\ job_out = <<"raise", "e1">> /\ exc = "e1"

\* C7: a `with monitor:` block that completes without an error leads to exactly
\* one ping() invocation, made at scope exit; scope entry and the block itself
\* issue no request.
C7_ScopeOnePingAtExit ==
    usage = "with"
    => /\ pc = "body" => (trace = <<>> /\ pings = 0)
       /\ JobReturned => pings = 1
       /\ (pings >= 1 \/ trace # <<>>) => JobReturned

C7_Witness ==
    /\ usage = "with"
    /\ pc = "idle"
    /\ JobReturned
    /\ pings = 1
    /\ ping_ret = "True"
    /\ Len(Requests(trace)) = 2

\* C8: ping() returns True iff one of its requests received status 200; any
\* other outcome of an attempt is a failure: it is followed by a retry, or by
\* False once all `retries` attempts are used.
C8_TrueIffStatus200 ==
    usage \in MonitorUsages
    => /\ ping_ret # "None" => (ping_ret = "True" <=> Has200(trace))
       /\ ping_ret = "False" =>
              Len(Requests(trace)) = (IF self.retries > 0 THEN self.retries ELSE 0)
       /\ \A i \in 1 .. Len(trace) - 1 : ~Is200(trace[i])

C8_Witness ==
    /\ usage = "ping"
    /\ ping_ret = "False"
    /\ self.retries = 2
    /\ trace[1].exc = "None"
    /\ trace[1].status = 204
    /\ trace[3].exc = "HTTPError"

\* C9: main() of simple.py returns 0 whenever run_job() completed without
\* raising, and 1 whenever run_job() raised or was interrupted.
C9_ExitStatus ==
    (usage = "simple" /\ pc = "idle" /\ job_out # <<>>)
    => IF JobReturned THEN exit_status = <<0>> ELSE exit_status = <<1>>

\* C10: every CronMonitor has retries >= 1 and a non-empty token, so a ping()
\* that returns False has issued at least one request.
C10_AtLeastOneRequest ==
    (usage \in MonitorUsages /\ pings >= 1 /\ pc = "idle")
    => /\ self.retries >= 1
       /\ self.token # ""
       /\ ping_ret = "False" => Len(Requests(trace)) >= 1

\* the calling conventions that run job logic before the ping
JobUsages == {"wrap", "with", "simple", "decorator"}

\* C11: in the wrappers, the with block and simple.py, every request is issued
\* after the job logic of that call has finished without raising: while the job
\* runs, and after it raised or was interrupted, the call has issued no request,
\* and a step that issues a request is taken only with the job returned.
C11_NoRequestBeforeJobSuccess ==
    /\ [](usage \in JobUsages
          => /\ pc \in {"func", "body", "run_job"} => (trace = <<>> /\ job_out = <<>>)
             /\ ~JobReturned => (trace = <<>> /\ pings = 0)
             /\ JobRaised => pc = "idle")
    /\ [][(usage' \in JobUsages /\ Len(trace') > Len(trace))
              => (JobReturned /\ job_out' = job_out)]_vars

C11_Witness ==
    /\ usage = "simple"
    /\ pc = "idle"
    /\ JobReturned
    /\ Len(trace) = 1
    /\ trace[1].exc = "URLError"
    /\ exit_status = <<0>>

----------------------------------------------------------------------------
(* CronMonitor(token, timeout, retries).ping() as a function of the outcomes *)
(* of its requests: the reference the convenience functions are compared to  *)

\* the outcomes of the requests of a trace, in order
OutcomesOf(tr) ==
    [i \in 1 .. Len(Requests(tr)) |->
        [status |-> Requests(tr)[i].status, exc |-> Requests(tr)[i].exc]]

RefSuccess(o) == o.exc = "None" /\ o.status = 200

RECURSIVE RefTraceFrom(_, _, _, _, _)
\* the requests and sleeps from attempt i on, for as many outcomes as are given
RefTraceFrom(url, timeout, retries, outs, i) ==
    IF i > Len(outs) \/ i > retries
    THEN <<>>
    ELSE <<RequestEvent(url, timeout, outs[i])>>
         \o (IF RefSuccess(outs[i])
             THEN <<>>
             ELSE (IF i < retries THEN <<SleepEvent(5 * i)>> ELSE <<>>)
                  \o RefTraceFrom(url, timeout, retries, outs, i + 1))

RefTrace(token, timeout, retries, outs) ==
    RefTraceFrom("https://cronmonitor.app/ping/" \o token, timeout, retries, outs, 1)

\* what ping() has returned once the given outcomes are in: "None" while it runs
RefResult(retries, outs) ==
    IF \E i \in 1 .. Len(outs) : i <= retries /\ RefSuccess(outs[i]) THEN "True"
    ELSE IF Len(outs) >= retries THEN "False"
    ELSE "None"

\* the events, the result of ping() and the printed lines of the current call are
\* those of CronMonitor(token, timeout, retries=3, verbose=False)
AsFreshDefault(token, timeout) ==
    /\ trace = RefTrace(token, timeout, 3, OutcomesOf(trace))
    /\ pings >= 1 => ping_ret = RefResult(3, OutcomesOf(trace))
    /\ log = <<>>

\* C12: the module-level ping(token, timeout) issues the requests and sleeps and
\* returns the boolean of CronMonitor(token, timeout).ping() with retries 3 and
\* verbose off, as a direct ping() of an instance does with its own attributes;
\* it reads nothing of the retained instance or of an earlier call.  The
\* decorator made by cronmonitor(token, timeout) does what wrap of such an
\* instance does: on return of func one ping() and func's value, on a raise no
\* request and the same error.
C12_ConvenienceFunctions ==
    /\ usage = "ping" =>
           /\ trace = RefTrace(monitor.token, monitor.timeout, monitor.retries,
                               OutcomesOf(trace))
           /\ ping_ret = RefResult(monitor.retries, OutcomesOf(trace))
    /\ usage = "module_ping" =>
           /\ Len(args) = 2
           /\ AsFreshDefault(args[1], args[2])
           /\ pings = 1
           /\ ret = ping_ret
           /\ exc = "None"
    /\ usage = "decorator" =>
           /\ Len(deco) = 3
           /\ AsFreshDefault(deco[2], deco[3])
           /\ pings = (IF JobReturned THEN 1 ELSE 0)
           /\ JobRaised => (pc = "idle" /\ exc = job_out[2] /\ trace = <<>>)
           /\ (JobReturned /\ pc = "idle") => (ret = job_out[2] /\ exc = "None")

C12_Witness ==
    /\ calls = 2
    /\ usage = "module_ping"
    /\ args = <<"tokA", 5>>
    /\ monitor.retries = 1
    /\ deco # <<>>
    /\ pc = "idle"
    /\ ret = "True"
    /\ Len(trace) = 5
    /\ trace[5].url = "https://cronmonitor.app/ping/tokA"
    /\ trace[5].timeout = 5

\* the calling conventions bound to the retained instance
InstanceUsages == {"ping", "wrap", "with"}

\* C13: no operation of a CronMonitor changes its configuration: the attributes
\* set by __init__ keep their values in every step, the target stays
\* <base-address>/ping/<token>, and in every call on the instance, whatever
\* came before it, the attempt index starts at 1 (it is the number of requests
\* of the call so far, plus one before a request) and every request goes to
\* that target with the configured timeout.
C13_ConfigurationUnchanged ==
    /\ [][monitor' = monitor]_vars
    /\ [](/\ monitor.ping_url = "https://cronmonitor.app/ping/" \o monitor.token
          /\ usage \in InstanceUsages =>
                 /\ self = monitor
                 /\ \A i \in 1 .. Len(trace) :
                        trace[i].ev = "request" =>
                            /\ trace[i].url = "https://cronmonitor.app/ping/" \o monitor.token
                            /\ trace[i].timeout = monitor.timeout
                 /\ pc = "urlopen" => attempt = Len(Requests(trace)) + 1
                 /\ pc = "sleep" => attempt = Len(Requests(trace))
                 /\ Len(Requests(trace)) <= monitor.retries)

C13_Witness ==
    /\ calls = 2
    /\ has_wrapper
    /\ usage = "ping"
    /\ pc = "sleep"
    /\ attempt = 1
    /\ monitor.token = "tokB"
    /\ monitor.retries = 2
    /\ trace[1].url = "https://cronmonitor.app/ping/tokB"

\* C14: ping_cronmonitor() of simple.py returns True only when its request got
\* a response with status 200; any other status, a transport error or a timeout
\* gives False, and none of them is raised to main().
C14_SimplePingTrueOnlyOn200 ==
    (/\ usage = "simple"
     /\ pc = "idle"
     /\ Len(trace) = 1
     /\ trace[1].exc # "KeyboardInterrupt")
    => /\ ping_ret = (IF Is200(trace[1]) THEN "True" ELSE "False")
       /\ exc = "None"
       /\ exit_status = <<0>>

\* ping() is in its loop: before a request, or asleep between two
InPing == usage \in MonitorUsages /\ pc \in {"urlopen", "sleep"}

\* C15: with every request and every sleep ending, a ping() call in its loop
\* ends with True (SUCCESS) or False (EXHAUSTED), having issued at most
\* `retries` requests; the loop only moves forward (request of attempt i, then
\* the sleep of attempt i, then attempt i + 1), and once ping() has returned
\* its outcome stays as it is until another call starts.
C15_PingTerminates ==
    /\ InPing ~> (pc = "idle" /\ ping_ret \in {"True", "False"})
    /\ [](usage \in MonitorUsages =>
              /\ Len(Requests(trace)) <= (IF self.retries > 0 THEN self.retries ELSE 0)
              /\ InPing => (attempt >= 1 /\ attempt <= self.retries)
              /\ (pings >= 1 /\ ~InPing) => (pc = "idle" /\ ping_ret \in {"True", "False"}))
    /\ [][InPing =>
              \/ (pc = "urlopen" /\ pc' = "sleep" /\ attempt' = attempt)
              \/ (pc = "sleep" /\ pc' = "urlopen" /\ attempt' = attempt + 1)
              \/ (pc' = "idle" /\ ping_ret' \in {"True", "False"})]_vars
    /\ [][(ping_ret # "None" /\ calls' = calls) =>
              (ping_ret' = ping_ret /\ trace' = trace /\ pc' = "idle")]_vars

C15_Witness ==
    /\ usage = "with"
    /\ pc = "idle"
    /\ ping_ret = "False"
    /\ self.retries = 4
    /\ Len(Requests(trace)) = 4
    /\ Len(Sleeps(trace)) = 3

\* what a call on the instance hands to its caller once it is over: <<value
\* returned, error propagated>>, from the calling convention, what the job
\* logic did and what ping() returned
RefOutcome(u, job, pret) ==
    CASE u = "ping" -> <<pret, "None">>
      [] u = "wrap" /\ job[1] = "return" -> <<job[2], "None">>
      [] u = "with" /\ job[1] = "return" -> <<"None", "None">>
      [] OTHER -> <<"None", job[2]>>

\* C16: verbose affects logging only.  In every call on the instance the
\* requests and sleeps, the result of ping(), the value returned and the error
\* propagated are those given by RefTrace, RefResult and RefOutcome, functions
\* of token, timeout, retries, the responses and the job outcome in which
\* verbose does not occur: two instances that differ only in verbose and meet
\* the same responses and job outcome agree on all of them.  Lines are printed
\* only with verbose on.
C16_VerboseOnlyLogs ==
    usage \in InstanceUsages
    => /\ trace = RefTrace(self.token, self.timeout, self.retries, OutcomesOf(trace))
       /\ ping_ret = (IF pings >= 1 THEN RefResult(self.retries, OutcomesOf(trace))
                      ELSE "None")
       /\ (pc = "idle" /\ (usage = "ping" \/ job_out # <<>>)) =>
              <<ret, exc>> = RefOutcome(usage, job_out, ping_ret)
       /\ ~self.verbose => log = <<>>

C16_Witness ==
    /\ usage = "wrap"
    /\ pc = "idle"
    /\ self.verbose
    /\ self.retries = 3
    /\ job_out = <<"return", "v1">>
    /\ ret = "v1"
    /\ ping_ret = "True"
    /\ Len(trace) = 3
    /\ trace[2].secs = 5
    /\ Len(log) = 6

====
